---- MODULE Spec2Model ----
(***************************************************************************)
(* Model of the HearClear question-answering core: the keyword matchers,   *)
(* the Ollama adapter (generate / find_answer_in_transcript /              *)
(* find_and_extract_audio_answer), the timestamp handling and the query    *)
(* handlers of main.py.                                                    *)
(*                                                                         *)
(* Representation.  A Python str is a sequence of one-character strings.   *)
(* A float number of seconds is a pair of whole seconds and microseconds   *)
(* (the resolution of datetime.timedelta); a confidence is a fraction      *)
(* num/den.  None is NoSegment for a segment and Absent for a time.        *)
(***************************************************************************)
EXTENDS Integers, Sequences, FiniteSets, TLC

\* ------------------------------------------------------------------ bounds
\* most words in a generated question
MaxQWords == 2
\* most segments in a generated transcript
MaxSegs == 2
\* largest hour count of a raw (whisper) time value in the timestamp codec runs
MaxHours == 25
\* most keyword matcher calls in a keyword matcher run
MaxCalls == 3

\* ------------------------------------------------------------ Python str
SP == " "

\* str.lower() on the characters the model uses
LowerChar(c) ==
    CASE c = "T" -> "t"
      [] c = "N" -> "n"
      [] c = "W" -> "w"
      [] OTHER -> c

Lower(s) == [i \in 1..Len(s) |-> LowerChar(s[i])]

IsSpace(c) == c = SP

\* s[i..] starts with p   (1-based i)
StartsAt(s, p, i) ==
    /\ i + Len(p) - 1 <= Len(s)
    /\ \A k \in 1..Len(p) : s[i + k - 1] = p[k]

\* `sub in s` for str
Contains(sub, s) == \E i \in 1..(Len(s) - Len(sub) + 1) : StartsAt(s, sub, i)

\* str.replace(old, new): left to right, non-overlapping occurrences
RECURSIVE ReplaceFrom(_, _, _, _)
ReplaceFrom(s, old, new, i) ==
    IF i > Len(s) THEN <<>>
    ELSE IF StartsAt(s, old, i)
         THEN new \o ReplaceFrom(s, old, new, i + Len(old))
         ELSE <<s[i]>> \o ReplaceFrom(s, old, new, i + 1)

\* (a string without an occurrence is returned as it is)
Replace(s, old, new) == IF Contains(old, s) THEN ReplaceFrom(s, old, new, 1) ELSE s

\* str.strip()
RECURSIVE LStrip(_)
LStrip(s) == IF s # <<>> /\ IsSpace(Head(s)) THEN LStrip(Tail(s)) ELSE s

RECURSIVE RStrip(_)
RStrip(s) ==
    IF s # <<>> /\ IsSpace(s[Len(s)]) THEN RStrip(SubSeq(s, 1, Len(s) - 1)) ELSE s

Strip(s) == LStrip(RStrip(s))

\* str.split(): on runs of whitespace, no empty tokens
RECURSIVE SplitWsFrom(_, _, _)
SplitWsFrom(s, i, cur) ==
    IF i > Len(s) THEN (IF cur = <<>> THEN <<>> ELSE <<cur>>)
    ELSE IF IsSpace(s[i])
         THEN (IF cur = <<>> THEN <<>> ELSE <<cur>>) \o SplitWsFrom(s, i + 1, <<>>)
         ELSE SplitWsFrom(s, i + 1, Append(cur, s[i]))

SplitWs(s) == SplitWsFrom(s, 1, <<>>)

\* str.split(sep) for a one-character sep: empty fields are kept
RECURSIVE SplitOnFrom(_, _, _, _)
SplitOnFrom(s, sep, i, cur) ==
    IF i > Len(s) THEN <<cur>>
    ELSE IF s[i] = sep
         THEN <<cur>> \o SplitOnFrom(s, sep, i + 1, <<>>)
         ELSE SplitOnFrom(s, sep, i + 1, Append(cur, s[i]))

SplitOn(s, sep) == SplitOnFrom(s, sep, 1, <<>>)

\* " ".join(words)
RECURSIVE JoinSp(_)
JoinSp(ws) ==
    IF ws = <<>> THEN <<>>
    ELSE IF Len(ws) = 1 THEN ws[1]
    ELSE ws[1] \o <<SP>> \o JoinSp(Tail(ws))

\* ------------------------------------------------------- keyword matching
NoSegment == [id |-> -1, start |-> <<>>, end |-> <<>>, text |-> <<>>]

\* question_words of both matchers
question_words ==
    << <<"w","h","a","t">>, <<"w","h","e","n">>, <<"w","h","e","r","e">>,
       <<"w","h","o">>, <<"h","o","w">>, <<"w","h","y">>, <<"i","s">>,
       <<"a","r","e">>, <<"d","i","d">>, <<"d","o">>, <<"d","o","e","s">> >>

\* for word in question_words: q = q.replace(f" {word} ", " ")
RECURSIVE RemoveQuestionWords(_, _)
RemoveQuestionWords(q, k) ==
    IF k > Len(question_words) THEN q
    ELSE RemoveQuestionWords(
             Replace(q, <<SP>> \o question_words[k] \o <<SP>>, <<SP>>), k + 1)

\* [k.strip() for k in question_lower.split() if len(k.strip()) > 3]
RECURSIVE KeepLong(_)
KeepLong(toks) ==
    IF toks = <<>> THEN <<>>
    ELSE IF Len(Strip(Head(toks))) > 3
         THEN <<Strip(Head(toks))>> \o KeepLong(Tail(toks))
         ELSE KeepLong(Tail(toks))

Keywords(question) == KeepLong(SplitWs(RemoveQuestionWords(Lower(question), 1)))

\* sum(1 for keyword in keywords if keyword in segment_text)
RECURSIVE CountIn(_, _)
CountIn(keywords, text) ==
    IF keywords = <<>> THEN 0
    ELSE (IF Contains(Head(keywords), text) THEN 1 ELSE 0)
         + CountIn(Tail(keywords), text)

Score(keywords, segment) == CountIn(keywords, Lower(segment.text))

\* faulty variant of Better: a tie replaces the best segment
BetterOrEqual(score, best_score) == score >= best_score

\* if score > best_score
Better(score, best_score) == score > best_score

\* the scoring loop: best = [segment, score] after segments[i..]
RECURSIVE ScanSegments(_, _, _, _)
ScanSegments(segments, keywords, i, best) ==
    IF i > Len(segments) THEN best
    ELSE LET score == Score(keywords, segments[i])
         IN  ScanSegments(segments, keywords, i + 1,
                 IF Better(score, best.score)
                 THEN [segment |-> segments[i], score |-> score]
                 ELSE best)

BestMatch(segments, keywords) ==
    ScanSegments(segments, keywords, 1, [segment |-> NoSegment, score |-> 0])

\* ------------------------------------------------------- timestamp codec
\* A time value: whole seconds s and microseconds us (0..999999).
Time(s, us) == [s |-> s, us |-> us]

\* None where a time is expected
Absent == [s |-> -1, us |-> 0]

Digits == {"0", "1", "2", "3", "4", "5", "6", "7", "8", "9"}

DigitVal(c) ==
    CASE c = "0" -> 0 [] c = "1" -> 1 [] c = "2" -> 2 [] c = "3" -> 3
      [] c = "4" -> 4 [] c = "5" -> 5 [] c = "6" -> 6 [] c = "7" -> 7
      [] c = "8" -> 8 [] c = "9" -> 9

DigitChar(d) == <<"0", "1", "2", "3", "4", "5", "6", "7", "8", "9">>[d + 1]

AllDigits(s) == \A i \in 1..Len(s) : s[i] \in Digits

RECURSIVE DigitsValue(_)
DigitsValue(s) ==
    IF s = <<>> THEN 0
    ELSE 10 * DigitsValue(SubSeq(s, 1, Len(s) - 1)) + DigitVal(s[Len(s)])

\* "%d" % n, n >= 0
RECURSIVE DecStr(_)
DecStr(n) == IF n < 10 THEN <<DigitChar(n)>> ELSE DecStr(n \div 10) \o <<DigitChar(n % 10)>>

\* "%0<w>d" % n
RECURSIVE ZeroPad(_, _)
ZeroPad(s, w) == IF Len(s) >= w THEN s ELSE ZeroPad(<<"0">> \o s, w)

\* int(text): surrounding whitespace is stripped, then decimal digits.  (Sign,
\* underscore and other bases need characters the model's inputs do not use.)
\* ok = FALSE is ValueError.
ParseInt(text) ==
    LET t == Strip(text)
    IN  IF t # <<>> /\ AllDigits(t)
        THEN [ok |-> TRUE, val |-> DigitsValue(t)]
        ELSE [ok |-> FALSE, val |-> 0]

\* the fraction digits of a float literal as microseconds (six digits are kept)
FracMicros(f) == DigitsValue(SubSeq(f \o <<"0", "0", "0", "0", "0", "0">>, 1, 6))

\* float(text): digits, optionally a point and digits ("5", "5.", ".5", "05.25").
\* (Exponent, inf and nan need characters the model's inputs do not use.)
ParseFloat(text) ==
    LET t == Strip(text)
        parts == SplitOn(t, ".")
        bad == [ok |-> FALSE, val |-> Absent]
    IN  IF Len(parts) = 1
        THEN IF t # <<>> /\ AllDigits(t)
             THEN [ok |-> TRUE, val |-> Time(DigitsValue(t), 0)]
             ELSE bad
        ELSE IF /\ Len(parts) = 2
                /\ AllDigits(parts[1]) /\ AllDigits(parts[2])
                /\ parts[1] \o parts[2] # <<>>
             THEN [ok |-> TRUE,
                   val |-> Time(DigitsValue(parts[1]), FracMicros(parts[2]))]
             ELSE bad

\* The timestamp parsing every handler repeats:
\*   t = 0
\*   parts = text.split(":")
\*   if len(parts) == 3: t = int(p0) * 3600 + int(p1) * 60 + float(p2)
\*   elif len(parts) == 2: t = int(p0) * 60 + float(p1)
\* ok = FALSE is the ValueError of int() / float().
ParseTimestamp(text) ==
    LET parts == SplitOn(text, ":")
        err == [ok |-> FALSE, val |-> Absent]
    IN  IF Len(parts) = 3
        THEN LET h == ParseInt(parts[1])
                 m == ParseInt(parts[2])
                 sec == ParseFloat(parts[3])
             IN  IF h.ok /\ m.ok /\ sec.ok
                 THEN [ok |-> TRUE,
                       val |-> Time(h.val * 3600 + m.val * 60 + sec.val.s, sec.val.us)]
                 ELSE err
        ELSE IF Len(parts) = 2
        THEN LET m == ParseInt(parts[1])
                 sec == ParseFloat(parts[2])
             IN  IF m.ok /\ sec.ok
                 THEN [ok |-> TRUE, val |-> Time(m.val * 60 + sec.val.s, sec.val.us)]
                 ELSE err
        ELSE [ok |-> TRUE, val |-> Time(0, 0)]

\* timedelta(seconds=x) for a float x given as seconds, microseconds and tenths
\* of a microsecond: rounded to the nearest microsecond, half to even.
RoundMicros(s, us, tenth) ==
    LET up == tenth > 5 \/ (tenth = 5 /\ us % 2 = 1)
    IN  IF ~up THEN Time(s, us)
        ELSE IF us + 1 = 1000000 THEN Time(s + 1, 0)
        ELSE Time(s, us + 1)

\* str(timedelta): "H:MM:SS", preceded by "D day[s], " when days # 0 and
\* followed by ".ffffff" when microseconds # 0
FormatTimedelta(t) ==
    LET days == t.s \div 86400
        secs == t.s % 86400
        hh == secs \div 3600
        mm == (secs % 3600) \div 60
        ss == secs % 60
        hms == DecStr(hh) \o <<":">> \o ZeroPad(DecStr(mm), 2)
                 \o <<":">> \o ZeroPad(DecStr(ss), 2)
        d == IF days = 0 THEN <<>>
             ELSE DecStr(days) \o <<" ", "d", "a", "y">>
                  \o (IF days # 1 THEN <<"s">> ELSE <<>>) \o <<",", " ">>
        f == IF t.us = 0 THEN <<>> ELSE <<".">> \o ZeroPad(DecStr(t.us), 6)
    IN  d \o hms \o f

\* ------------------------------------------------- values and responses
\* A JSON / Python value as the adapter sees it.
\*   type "num": the number num/den;  "int": the integer num;  "str": str;
\*   "null": None;  "bool": True (num = 1) or False (num = 0)
IntVal(n) == [type |-> "int", num |-> n, den |-> 1, str |-> <<>>]
NumVal(n, d) == [type |-> "num", num |-> n, den |-> d, str |-> <<>>]
StrVal(s) == [type |-> "str", num |-> 0, den |-> 1, str |-> s]
NullVal == [type |-> "null", num |-> 0, den |-> 1, str |-> <<>>]
BoolVal(b) == [type |-> "bool", num |-> IF b THEN 1 ELSE 0, den |-> 1, str |-> <<>>]

\* The text a generate() call returns is a sequence of tokens: an opening
\* brace, a closing brace, a "key": value member of an object, or text that is
\* none of these.
LB == [tok |-> "{", key |-> "", val |-> NullVal]
RB == [tok |-> "}", key |-> "", val |-> NullVal]
TXT == [tok |-> "text", key |-> "", val |-> NullVal]
Member(k, v) == [tok |-> "member", key |-> k, val |-> v]

\* response.find('{'), 0-based, -1 when there is none
FindOpen(response) ==
    IF \E i \in 1..Len(response) : response[i] = LB
    THEN (CHOOSE i \in 1..Len(response) :
             /\ response[i] = LB
             /\ \A j \in 1..(i - 1) : response[j] # LB) - 1
    ELSE -1

\* response.rfind('}'), 0-based, -1 when there is none
RFindClose(response) ==
    IF \E i \in 1..Len(response) : response[i] = RB
    THEN (CHOOSE i \in 1..Len(response) :
             /\ response[i] = RB
             /\ \A j \in (i + 1)..Len(response) : response[j] # RB) - 1
    ELSE -1

\* faulty variant of JsonLoads: whatever stands between the braces is accepted
JsonLoadsLenient(json_str) == [ok |-> TRUE, members |-> json_str]

\* json.loads(json_str): an object is a brace pair around members only;
\* ok = FALSE is json.JSONDecodeError
JsonLoads(json_str) ==
    [ok |-> /\ Len(json_str) >= 2
            /\ json_str[1] = LB
            /\ json_str[Len(json_str)] = RB
            /\ \A i \in 2..(Len(json_str) - 1) : json_str[i].tok = "member",
     members |-> json_str]

\* result.get(key, default): a repeated key keeps its last value
DictGet(members, key, default) ==
    IF \E i \in 1..Len(members) : members[i].tok = "member" /\ members[i].key = key
    THEN members[CHOOSE i \in 1..Len(members) :
                    /\ members[i].tok = "member" /\ members[i].key = key
                    /\ \A j \in (i + 1)..Len(members) :
                          ~(members[j].tok = "member" /\ members[j].key = key)].val
    ELSE default

\* ------------------------------------------------------ the Ollama adapter
\* The dict find_answer_in_transcript and _fallback_keyword_matching return.
\* metadata["timestamp"] is absent until a handler adds it.
NoTimestampMeta ==
    [present |-> FALSE, start_seconds |-> Absent, end_seconds |-> Absent,
     start_with_buffer_ms |-> -1, end_with_buffer_ms |-> -1]

AnswerInfo(segment, confidence, method) ==
    [matched_segment |-> segment, confidence |-> confidence,
     match_method |-> method, timestamp |-> NoTimestampMeta]

\* _fallback_keyword_matching(segments, question)
FallbackKeywordMatching(segments, question) ==
    LET keywords == Keywords(question)
        best == BestMatch(segments, keywords)
    IN  AnswerInfo(best.segment,
                   IF keywords # <<>> THEN NumVal(best.score, Len(keywords))
                   ELSE IntVal(0),
                   "keyword_fallback")

\* faulty variant of GetSegmentByQuestion: without a match the first segment is returned
GetSegmentOrFirst(segments, question) ==
    LET best == BestMatch(segments, Keywords(question))
    IN  IF best.score > 0 THEN best.segment
        ELSE IF segments # <<>> THEN segments[1] ELSE NoSegment

\* WhisperTranscriber.get_segment_by_question(transcript_data, question):
\*   return best_segment if best_score > 0 else None
GetSegmentByQuestion(segments, question) ==
    LET best == BestMatch(segments, Keywords(question))
    IN  IF best.score > 0 THEN best.segment ELSE NoSegment

\* find_answer_in_transcript when the transcript has no segments
EmptyTranscriptAnswer == AnswerInfo(NoSegment, NumVal(0, 1), "semantic")

\* faulty variant of ZeroBasedId: a str id is left as it came
ZeroBasedIdOfIntOnly(raw) ==
    IF raw.type \in {"int", "bool"} /\ raw.num > 0 THEN IntVal(raw.num - 1) ELSE raw

\* segment_id after the two conversions:
\*   if isinstance(segment_id, str) and segment_id.isdigit(): int(segment_id)
\*   if isinstance(segment_id, int) and segment_id > 0: segment_id -= 1
\* (bool is an int in Python: True - 1 = 0)
ZeroBasedId(raw) ==
    LET v == IF raw.type = "str" /\ raw.str # <<>> /\ AllDigits(raw.str)
             THEN IntVal(DigitsValue(raw.str))
             ELSE raw
    IN  IF v.type \in {"int", "bool"} /\ v.num > 0 THEN IntVal(v.num - 1) ELSE v

\* `segment_id is not None and 0 <= segment_id < len(segments)` and the
\* indexing segments[segment_id] both succeed.  A str raises TypeError in the
\* comparison, a float in the indexing; both are caught (line 176).
ValidIndex(v, n) == v.type \in {"int", "bool"} /\ 0 <= v.num /\ v.num < n

\* find_answer_in_transcript from the response of generate() on (lines 140-178)
FindAnswerFromResponse(segments, question, response) ==
    LET json_start == FindOpen(response)
        json_end == RFindClose(response) + 1
        fallback == FallbackKeywordMatching(segments, question)
    IN  IF json_start >= 0 /\ json_end > json_start
        THEN LET parsed == JsonLoads(SubSeq(response, json_start + 1, json_end))
                 result == parsed.members
                 segment_id == ZeroBasedId(DictGet(result, "best_segment_id", IntVal(0)))
             IN  IF ~parsed.ok THEN fallback
                 ELSE IF ValidIndex(segment_id, Len(segments))
                 THEN AnswerInfo(segments[segment_id.num + 1],
                                 DictGet(result, "confidence", NumVal(7, 10)),
                                 "semantic")
                 ELSE fallback
        ELSE fallback

\* ---------------------------------------------------- audio extraction
\* buffer_ms: the default of find_and_extract_audio_answer
buffer_ms == 500

\* int(seconds * 1000)
ToMs(t) == t.s * 1000 + t.us \div 1000

Min(a, b) == IF a <= b THEN a ELSE b
Max(a, b) == IF a >= b THEN a ELSE b

\* if end_ms > len(audio): end_ms = len(audio)
ClampEnd(end_ms, len) == IF end_ms > len THEN len ELSE end_ms

\* faulty variant of PadStart: the padding is cut at the start of the audio
PadStartPartial(start_ms) == Max(0, start_ms - buffer_ms)

\* faulty variant of PadStart: no padding before the segment
PadStartNever(start_ms) == start_ms

\* if start_ms >= buffer_ms: start_ms -= buffer_ms
PadStart(start_ms) == IF start_ms >= buffer_ms THEN start_ms - buffer_ms ELSE start_ms

\* faulty variant of PadEnd: the padding is added whatever the audio's length
PadEndAlways(end_ms, len) == end_ms + buffer_ms

\* if end_ms + buffer_ms <= len(audio): end_ms += buffer_ms
PadEnd(end_ms, len) == IF end_ms + buffer_ms <= len THEN end_ms + buffer_ms ELSE end_ms

\* len(audio[start_ms:end_ms]): the slice bounds are cut to the audio's length
SliceLen(start_ms, end_ms, len) == Max(0, Min(end_ms, len) - Min(start_ms, len))

\* What find_and_extract_audio_answer returns.
Extraction(info, has_audio, start_time, end_time, error, clip_start, clip_end, clip_len) ==
    [answer_info |-> info, has_audio |-> has_audio,
     start_time |-> start_time, end_time |-> end_time, error |-> error,
     clip_start_ms |-> clip_start, clip_end_ms |-> clip_end, clip_len_ms |-> clip_len]

\* find_and_extract_audio_answer after find_answer_in_transcript returned info
\* (lines 210-309).  audio.loadable: the file exists and pydub decodes it.
ExtractAudio(info, audio) ==
    LET segment == info.matched_segment
        st == ParseTimestamp(segment.start)
        en == ParseTimestamp(segment.end)
        start_ms == PadStart(ToMs(st.val))
        end_ms == PadEnd(ClampEnd(ToMs(en.val), audio.len_ms), audio.len_ms)
    IN  IF segment = NoSegment
        THEN Extraction(info, FALSE, Absent, Absent, FALSE, -1, -1, -1)
        ELSE IF ~st.ok \/ ~en.ok \/ ~audio.loadable
        THEN Extraction(info, FALSE, Absent, Absent, TRUE, -1, -1, -1)
        ELSE Extraction(
                 [info EXCEPT !.timestamp =
                     [present |-> TRUE, start_seconds |-> st.val, end_seconds |-> en.val,
                      start_with_buffer_ms |-> start_ms, end_with_buffer_ms |-> end_ms]],
                 TRUE, st.val, en.val, FALSE,
                 start_ms, end_ms, SliceLen(start_ms, end_ms, audio.len_ms))

\* ------------------------------------------------------- handler results
NoAnswerText ==
    <<"N","o"," ","r","e","l","e","v","a","n","t"," ","a","n","s","w","e","r",
      " ","f","o","u","n","d">>

\* What a handler hands back.  status is the HTTP status; match_method is
\* "none" when the body carries no metadata.  answer_segment stands for the
\* segment whose text the body carries.
Result(status, segment, start_time, end_time, text, confidence, method, ts, extraction) ==
    [status |-> status, answer_segment |-> segment,
     start_time |-> start_time, end_time |-> end_time, text |-> text,
     confidence |-> confidence, has_metadata |-> method # "none",
     match_method |-> method, timestamp |-> ts,
     has_audio |-> extraction.has_audio,
     clip_start_ms |-> extraction.clip_start_ms,
     clip_end_ms |-> extraction.clip_end_ms,
     clip_len_ms |-> extraction.clip_len_ms]

NoExtraction == Extraction(AnswerInfo(NoSegment, NullVal, "none"),
                           FALSE, Absent, Absent, FALSE, -1, -1, -1)

\* raise HTTPException(status_code=code)
HttpError(code) ==
    Result(code, NoSegment, Absent, Absent, <<>>, NullVal, "none",
           NoTimestampMeta, NoExtraction)

NoResult == HttpError(0)

\* f"{confidence:.2f}" succeeds (ValueError for a str, TypeError for None)
Formattable(confidence) == confidence.type \in {"num", "int", "bool"}

\* query_transcript / query_transcript_audio from `if segment:` on.
\* err_ts, err_str, err_null: the status a timestamp ValueError, a str
\* confidence and a None confidence end in.
QueryFinish(segment, confidence, method, llm, err_ts, err_str, err_null) ==
    IF segment # NoSegment
    THEN LET st == ParseTimestamp(segment.start)
             en == ParseTimestamp(segment.end)
         IN  IF ~Formattable(confidence)
             THEN HttpError(IF confidence.type = "str" THEN err_str ELSE err_null)
             ELSE IF ~st.ok \/ ~en.ok THEN HttpError(err_ts)
             ELSE Result(200, segment, st.val, en.val, segment.text, confidence, method,
                         [present |-> TRUE, start_seconds |-> st.val,
                          end_seconds |-> en.val,
                          start_with_buffer_ms |-> -1, end_with_buffer_ms |-> -1],
                         NoExtraction)
    ELSE Result(200, NoSegment, Absent, Absent, NoAnswerText, NumVal(0, 1),
                IF llm THEN "semantic" ELSE "keyword", NoTimestampMeta, NoExtraction)

\* the keyword branch of both query handlers:
\*   segment = transcriber.get_segment_by_question(transcript_data, question)
\*   confidence = 0.5; metadata = {"match_method": "keyword"}
KeywordQuery(segments, question, err_ts) ==
    QueryFinish(GetSegmentByQuestion(segments, question), NumVal(1, 2), "keyword",
                FALSE, err_ts, err_ts, err_ts)

\* query_transcript with the adapter's answer
QueryTranscriptFinish(info) ==
    QueryFinish(info.matched_segment, info.confidence, info.match_method,
                TRUE, 500, 500, 500)

\* query_transcript_audio with the adapter's answer: a ValueError is a 400
QueryTranscriptAudioFinish(info) ==
    QueryFinish(info.matched_segment, info.confidence, info.match_method,
                TRUE, 400, 400, 500)

\* audio_question_answer from "return just the answer info" on (lines 980-1012)
AnswerWithoutAudio(info) ==
    LET matched_segment == info.matched_segment
        st == ParseTimestamp(matched_segment.start)
        en == ParseTimestamp(matched_segment.end)
    IN  IF matched_segment # NoSegment
        THEN IF ~st.ok \/ ~en.ok THEN HttpError(400)
             ELSE Result(200, matched_segment, st.val, en.val, matched_segment.text,
                         info.confidence, info.match_method, info.timestamp,
                         NoExtraction)
        ELSE Result(200, NoSegment, Absent, Absent, NoAnswerText, NumVal(0, 1),
                    "none", NoTimestampMeta, NoExtraction)

\* faulty variant of AnswerWithAudio: the times are the padded clip bounds
AnswerWithClipBounds(ex) ==
    Result(200, ex.answer_info.matched_segment,
           Time(ex.clip_start_ms \div 1000, (ex.clip_start_ms % 1000) * 1000),
           Time(ex.clip_end_ms \div 1000, (ex.clip_end_ms % 1000) * 1000),
           ex.answer_info.matched_segment.text, ex.answer_info.confidence,
           ex.answer_info.match_method, ex.answer_info.timestamp, ex)

\* audio_question_answer's body with the audio segment (lines 949-969)
AnswerWithAudio(ex) ==
    Result(200, ex.answer_info.matched_segment, ex.start_time, ex.end_time,
           ex.answer_info.matched_segment.text, ex.answer_info.confidence,
           ex.answer_info.match_method, ex.answer_info.timestamp, ex)

\* stream_answer_audio from the extraction on (lines 1067-1092): the headers
\* carry text, times and confidence, and no metadata
StreamFinish(ex) ==
    IF ~ex.has_audio THEN HttpError(404)
    ELSE Result(200, ex.answer_info.matched_segment, ex.start_time, ex.end_time,
                ex.answer_info.matched_segment.text, ex.answer_info.confidence,
                "none", NoTimestampMeta, ex)

\* ----------------------------------------------------------------- inputs
w_what == <<"w", "h", "a", "t">>
w_take == <<"t", "a", "k", "e">>
w_noon == <<"n", "o", "o", "n">>

Vocabulary == {w_take, w_noon}

\* Questions of up to MaxQWords words, and a few chosen ones:
\* "Take what noon", "is it?", " " and " what "
Questions ==
    {JoinSp(ws) : ws \in UNION {[1..n -> Vocabulary] : n \in 0..MaxQWords}}
    \cup { <<"T", "a", "k", "e", " ">> \o w_what \o <<" ">> \o w_noon,
           <<"i", "s", " ", "i", "t", "?">>,
           <<" ">>,
           <<" ">> \o w_what \o <<" ">> }

\* Segment texts: "Take it" and "take at noon"
Texts == { <<"T", "a", "k", "e", " ", "i", "t">>,
           <<"t", "a", "k", "e", " ", "a", "t", " ", "n", "o", "o", "n">> }

\* The transcript transcribe_with_timestamps builds from whisper segments of
\* five seconds each with the given texts, the first one starting at `first`.
TranscriptOf(texts, first) ==
    [i \in 1..Len(texts) |->
        [id |-> i - 1,
         start |-> FormatTimedelta(Time(first + 5 * (i - 1), 0)),
         end |-> FormatTimedelta(Time(first + 5 * i, 0)),
         text |-> texts[i]]]

\* Transcripts of up to MaxSegs segments from the start of a recording, and
\* transcripts whose first segment "Take it" starts five seconds before the
\* recording's first day is over (at 86395 s)
Transcripts ==
    {TranscriptOf(texts, 0) : texts \in UNION {[1..n -> Texts] : n \in 0..MaxSegs}}
    \cup
    {TranscriptOf([i \in 1..n |-> <<"T", "a", "k", "e", " ", "i", "t">>], 86395) :
        n \in 1..MaxSegs}

\* The audio file of a query: missing / undecodable, or ten seconds long
Audios == {[loadable |-> FALSE, len_ms |-> 0], [loadable |-> TRUE, len_ms |-> 10000]}

NoAudio == [loadable |-> FALSE, len_ms |-> 0]

\* A request: the handler, its flags, the question and the audio file found
Requests ==
    [op : {"query_transcript", "query_transcript_audio"},
     use_llm : BOOLEAN, include_audio : {FALSE}, question : Questions, audio : {NoAudio}]
    \cup
    [op : {"audio_question_answer"},
     use_llm : {TRUE}, include_audio : BOOLEAN, question : Questions, audio : Audios]
    \cup
    [op : {"stream_answer_audio"},
     use_llm : {TRUE}, include_audio : {TRUE}, question : Questions, audio : Audios]

\* The texts the backend may answer for a transcript of n segments
Responses(n) ==
    LET ids == {IntVal(k) : k \in -1..(n + 1)}
                 \cup {StrVal(<<"0">>), StrVal(<<"1">>), StrVal(<<"2">>), StrVal(<<"x">>),
                       NullVal, NumVal(3, 2), BoolVal(TRUE)}
        conf == Member("confidence", NumVal(9, 10))
    IN  { <<>>, <<TXT>>, <<LB>>, <<RB, LB>>, <<LB, TXT, RB>>, <<LB, RB>>,
          <<TXT, LB, conf, RB, TXT>>,
          <<LB, Member("best_segment_id", IntVal(1)), RB, LB, RB>> }
        \cup { <<LB, Member("best_segment_id", v), RB>> : v \in ids }
        \cup { <<TXT, LB, Member("best_segment_id", IntVal(1)), conf, RB>> }
        \cup { <<LB, Member("best_segment_id", IntVal(1)), Member("confidence", c), RB>> :
                   c \in {NumVal(3, 2), StrVal(<<"x">>)} }

NoAnswerInfo == AnswerInfo(NoSegment, NullVal, "none")

\* ------------------------------------------------------------------ state
VARIABLES
    OLLAMA_AVAILABLE,   \* main.py's module flag
    transcript_data,    \* the segments of the stored transcript
    req,                \* the request being handled
    pc,                 \* "start", "waiting" (inside requests.post), "responded", "done"
    stage,              \* which find_answer_in_transcript call of the handler is running
    calls,              \* generate() requests posted for this query
    prompt,             \* the labelled segments of the last request posted
    response,           \* what the last generate() returned
    transport,          \* "none", "ok" or "failed": how the last post ended
    answer_info,        \* what the last find_answer_in_transcript returned
    result,             \* what the handler returned
    tsPc,               \* timestamp codec run: "off", "raw", "text", "parsed"
    tsRaw,              \* the whisper time value [s, us, tenth]
    tsText,             \* the timestamp string
    tsParsed,           \* what ParseTimestamp made of it
    auPc,               \* audio extraction run: "off", "start", "answered", "done"
    auReq,              \* the extraction request and the audio file it finds
    auAnswer,           \* what query_transcript answered before the extraction
    auOut,              \* what the extraction returned
    kmCalls,            \* keyword matcher run: the calls made so far
    kmLast,             \* best_segment and best_score as the last call left them
    kmLog               \* the calls made: matcher, arguments, and what it returned

queryVars == <<OLLAMA_AVAILABLE, transcript_data, req, pc, stage, calls, prompt,
               response, transport, answer_info, result>>
tsVars == <<tsPc, tsRaw, tsText, tsParsed>>
auVars == <<auPc, auReq, auAnswer, auOut>>
vars == <<OLLAMA_AVAILABLE, transcript_data, req, pc, stage, calls, prompt, response,
          transport, answer_info, result, tsPc, tsRaw, tsText, tsParsed,
          auPc, auReq, auAnswer, auOut, kmCalls, kmLast, kmLog>>
kmVars == <<kmCalls, kmLast, kmLog>>

NoRaw == [s |-> -1, us |-> 0, tenth |-> 0]
NoParsed == [ok |-> FALSE, val |-> Absent]

TsOff ==
    /\ tsPc = "off"
    /\ tsRaw = NoRaw
    /\ tsText = <<>>
    /\ tsParsed = NoParsed

\* What an extraction hands back: the HTTP status of get_audio_segment (0 for
\* find_and_extract_audio_answer, which is no handler), whether a segment was
\* matched, whether audio bytes are returned, and the slice taken.
Clip(status, matched, has_audio, error, clip_start, clip_end, clip_len) ==
    [status |-> status, matched |-> matched, has_audio |-> has_audio, error |-> error,
     clip_start_ms |-> clip_start, clip_end_ms |-> clip_end, clip_len_ms |-> clip_len]

NoClip == Clip(0, FALSE, FALSE, FALSE, -1, -1, -1)

NoAuReq ==
    [op |-> "none", start |-> Absent, end |-> Absent, segments |-> <<>>,
     question |-> <<>>, response |-> <<>>, audio |-> NoAudio]

AuOff ==
    /\ auPc = "off"
    /\ auReq = NoAuReq
    /\ auAnswer = NoResult
    /\ auOut = NoClip

NoBest == [segment |-> NoSegment, score |-> 0]

KmOff ==
    /\ kmCalls = -1
    /\ kmLast = NoBest
    /\ kmLog = {}

Init ==
    /\ OLLAMA_AVAILABLE \in BOOLEAN
    /\ transcript_data \in Transcripts
    /\ req \in Requests
    \* the audio endpoints are registered only when OLLAMA_AVAILABLE
    /\ req.op \in {"audio_question_answer", "stream_answer_audio"} => OLLAMA_AVAILABLE
    /\ pc = "start"
    /\ stage = 0
    /\ calls = 0
    /\ prompt = <<>>
    /\ response = <<>>
    /\ transport = "none"
    /\ answer_info = NoAnswerInfo
    /\ result = NoResult
    /\ TsOff
    /\ AuOff
    /\ KmOff

\* ---------------------------------------------------------------- actions
\* faulty variant of TranscriptAfter: the timestamp metadata is written into
\* the matched segment, which is an element of the transcript's list
TimestampIntoSegment(segments, res) ==
    [i \in 1..Len(segments) |->
        IF res.timestamp.present /\ segments[i] = res.answer_segment
        THEN [id |-> segments[i].id, start |-> segments[i].start,
              end |-> segments[i].end, text |-> segments[i].text,
              timestamp |-> res.timestamp]
        ELSE segments[i]]

\* The transcript's segments after a handler built res.  The handlers and
\* the adapter assign to metadata["timestamp"] and metadata["request"], which
\* are keys of the answer's metadata dict; no segment dict and no segment
\* list is assigned to.
TranscriptAfter(segments, res) == segments

\* faulty variant of Context: the labels count from 0
ContextFromZero(segments) ==
    [j \in 1..Len(segments) |-> [label |-> j - 1, segment |-> segments[j]]]

\* The context of the prompt, one entry per line written:
\*   for i, segment in enumerate(segments):
\*       context += f"Segment {i+1} [{start} - {end}]: {text}\n"
\* (the j-th element of the list has i = j - 1)
Context(segments) ==
    [j \in 1..Len(segments) |-> [label |-> (j - 1) + 1, segment |-> segments[j]]]

\* The handler returns res.
Return(res) ==
    /\ result' = res
    /\ pc' = "done"
    /\ prompt' = prompt
    /\ transcript_data' = TranscriptAfter(transcript_data, res)

\* generate() posts its request and blocks in requests.post
PostGenerate(n) ==
    /\ pc' = "waiting"
    /\ stage' = n
    /\ calls' = calls + 1
    /\ prompt' = Context(transcript_data)
    /\ UNCHANGED <<answer_info, result, transcript_data>>

\* not question_text or len(question_text.strip()) == 0
EmptyQuestion(q) == Strip(q) = <<>>

\* query_transcript up to the adapter's request, or to the end on the keyword path
QueryTranscript ==
    /\ pc = "start" /\ req.op = "query_transcript"
    /\ IF OLLAMA_AVAILABLE /\ req.use_llm
       THEN IF transcript_data = <<>>
            THEN /\ answer_info' = EmptyTranscriptAnswer
                 /\ Return(QueryTranscriptFinish(EmptyTranscriptAnswer))
                 /\ UNCHANGED <<stage, calls>>
            ELSE PostGenerate(1)
       ELSE /\ Return(KeywordQuery(transcript_data, req.question, 500))
            /\ UNCHANGED <<stage, calls, answer_info>>
    /\ UNCHANGED <<OLLAMA_AVAILABLE, req, response, transport>>
    /\ UNCHANGED tsVars
    /\ UNCHANGED auVars
    /\ UNCHANGED kmVars

\* query_transcript_audio from the transcribed question on
QueryTranscriptAudio ==
    /\ pc = "start" /\ req.op = "query_transcript_audio"
    /\ IF EmptyQuestion(req.question) \/ transcript_data = <<>>
       THEN /\ Return(HttpError(400))
            /\ UNCHANGED <<stage, calls, answer_info>>
       ELSE IF OLLAMA_AVAILABLE /\ req.use_llm
       THEN PostGenerate(1)
       ELSE /\ Return(KeywordQuery(transcript_data, req.question, 400))
            /\ UNCHANGED <<stage, calls, answer_info>>
    /\ UNCHANGED <<OLLAMA_AVAILABLE, req, response, transport>>
    /\ UNCHANGED tsVars
    /\ UNCHANGED auVars
    /\ UNCHANGED kmVars

\* audio_question_answer and stream_answer_audio up to the adapter's request.
\* With no segments find_answer_in_transcript returns at once, also when
\* audio_question_answer calls it a second time.
AudioAnswerStart ==
    /\ pc = "start" /\ req.op \in {"audio_question_answer", "stream_answer_audio"}
    /\ IF transcript_data = <<>>
       THEN /\ answer_info' = EmptyTranscriptAnswer
            /\ Return(IF req.op = "stream_answer_audio"
                      THEN StreamFinish(ExtractAudio(EmptyTranscriptAnswer, req.audio))
                      ELSE AnswerWithoutAudio(EmptyTranscriptAnswer))
            /\ UNCHANGED <<stage, calls>>
       ELSE PostGenerate(1)
    /\ UNCHANGED <<OLLAMA_AVAILABLE, req, response, transport>>
    /\ UNCHANGED tsVars
    /\ UNCHANGED auVars
    /\ UNCHANGED kmVars

\* requests.post returns status 200 with some text
OllamaRespond ==
    /\ pc = "waiting"
    /\ \E r \in Responses(Len(transcript_data)) : response' = r
    /\ transport' = "ok"
    /\ pc' = "responded"
    /\ UNCHANGED <<OLLAMA_AVAILABLE, transcript_data, req, stage, calls, prompt, answer_info, result>>
    /\ UNCHANGED tsVars
    /\ UNCHANGED auVars
    /\ UNCHANGED kmVars

\* faulty variant of OllamaFail: the body of the failed reply is returned as the response
OllamaFailReturnsBody ==
    /\ pc = "waiting"
    /\ \E r \in Responses(Len(transcript_data)) : response' = r
    /\ transport' = "failed"
    /\ pc' = "responded"
    /\ UNCHANGED <<OLLAMA_AVAILABLE, transcript_data, req, stage, calls, prompt, answer_info, result>>
    /\ UNCHANGED tsVars
    /\ UNCHANGED auVars
    /\ UNCHANGED kmVars

\* requests.post raises, or the status is not 200: generate() returns ""
OllamaFail ==
    /\ pc = "waiting"
    /\ response' = <<>>
    /\ transport' = "failed"
    /\ pc' = "responded"
    /\ UNCHANGED <<OLLAMA_AVAILABLE, transcript_data, req, stage, calls, prompt, answer_info, result>>
    /\ UNCHANGED tsVars
    /\ UNCHANGED auVars
    /\ UNCHANGED kmVars

\* query_transcript / query_transcript_audio after generate() returned
QueryResume ==
    /\ pc = "responded" /\ req.op \in {"query_transcript", "query_transcript_audio"}
    /\ LET info == FindAnswerFromResponse(transcript_data, req.question, response)
       IN  /\ answer_info' = info
           /\ Return(IF req.op = "query_transcript"
                     THEN QueryTranscriptFinish(info)
                     ELSE QueryTranscriptAudioFinish(info))
    /\ UNCHANGED <<OLLAMA_AVAILABLE, req, stage, calls, response, transport>>
    /\ UNCHANGED tsVars
    /\ UNCHANGED auVars
    /\ UNCHANGED kmVars

\* stream_answer_audio after generate() returned
StreamResume ==
    /\ pc = "responded" /\ req.op = "stream_answer_audio"
    /\ LET info == FindAnswerFromResponse(transcript_data, req.question, response)
           ex == ExtractAudio(info, req.audio)
       IN  /\ answer_info' = ex.answer_info
           /\ Return(StreamFinish(ex))
    /\ UNCHANGED <<OLLAMA_AVAILABLE, req, stage, calls, response, transport>>
    /\ UNCHANGED tsVars
    /\ UNCHANGED auVars
    /\ UNCHANGED kmVars

\* `if not matched_segment:` of audio_question_answer (line 975): the handler
\* calls find_answer_in_transcript when it holds no matched segment
NeedsFindAnswer(matched_segment) == matched_segment = NoSegment

\* audio_question_answer after generate() returned.  With include_audio the
\* first call is find_and_extract_audio_answer's; without a matched segment
\* the handler calls find_answer_in_transcript itself.
AudioAnswerResume ==
    /\ pc = "responded" /\ req.op = "audio_question_answer"
    /\ LET info == FindAnswerFromResponse(transcript_data, req.question, response)
           ex == ExtractAudio(info, req.audio)
       IN  IF req.include_audio /\ stage = 1
           THEN IF ex.has_audio
                THEN /\ answer_info' = ex.answer_info
                     /\ Return(AnswerWithAudio(ex))
                     /\ UNCHANGED <<stage, calls>>
                ELSE IF NeedsFindAnswer(ex.answer_info.matched_segment)
                THEN /\ PostGenerate(2)
                ELSE /\ answer_info' = ex.answer_info
                     /\ Return(AnswerWithoutAudio(ex.answer_info))
                     /\ UNCHANGED <<stage, calls>>
           ELSE /\ answer_info' = info
                /\ Return(AnswerWithoutAudio(info))
                /\ UNCHANGED <<stage, calls>>
    /\ UNCHANGED <<OLLAMA_AVAILABLE, req, response, transport>>
    /\ UNCHANGED tsVars
    /\ UNCHANGED auVars
    /\ UNCHANGED kmVars

\* the steps the handler takes itself; the others are the backend's
HandlerStep ==
    \/ QueryTranscript
    \/ QueryTranscriptAudio
    \/ AudioAnswerStart
    \/ QueryResume
    \/ StreamResume
    \/ AudioAnswerResume

Next ==
    \/ QueryTranscript
    \/ QueryTranscriptAudio
    \/ AudioAnswerStart
    \/ OllamaRespond
    \/ OllamaFail
    \/ QueryResume
    \/ StreamResume
    \/ AudioAnswerResume

Spec == Init /\ [][Next]_vars

\* ------------------------------------------------- timestamp codec runs
\* Whisper time values: whole seconds up to MaxHours hours and two days on,
\* with fractions down to a tenth of a microsecond.
RawTimes ==
    [s : {h * 3600 + m * 60 + sec : h \in 0..MaxHours, m \in {0, 59}, sec \in {0, 5, 59}}
           \cup {172800, 172865},
     us : {0, 1, 500000, 999999},
     tenth : {0, 5}]

\* Timestamp strings a stored transcript may hold:
\* "5", "1:2:3:4", "", "0:05", "1:05.5", "0:00:05", "x:00:05", "0::05",
\* "0:00:0x", "0:x", " 1: 05 "
TimestampTexts ==
    { <<"5">>,
      <<"1", ":", "2", ":", "3", ":", "4">>,
      <<>>,
      <<"0", ":", "0", "5">>,
      <<"1", ":", "0", "5", ".", "5">>,
      <<"0", ":", "0", "0", ":", "0", "5">>,
      <<"x", ":", "0", "0", ":", "0", "5">>,
      <<"0", ":", ":", "0", "5">>,
      <<"0", ":", "0", "0", ":", "0", "x">>,
      <<"0", ":", "x">>,
      <<" ", "1", ":", " ", "0", "5", " ">> }

QueryOff ==
    /\ OLLAMA_AVAILABLE = FALSE
    /\ transcript_data = <<>>
    /\ req = [op |-> "none", use_llm |-> FALSE, include_audio |-> FALSE,
              question |-> <<>>, audio |-> NoAudio]
    /\ pc = "off"
    /\ stage = 0
    /\ calls = 0
    /\ prompt = <<>>
    /\ response = <<>>
    /\ transport = "none"
    /\ answer_info = NoAnswerInfo
    /\ result = NoResult

TsInit ==
    /\ QueryOff
    /\ AuOff
    /\ KmOff
    /\ tsParsed = NoParsed
    /\ \/ tsPc = "raw" /\ tsRaw \in RawTimes /\ tsText = <<>>
       \/ tsPc = "text" /\ tsRaw = NoRaw /\ tsText \in TimestampTexts

\* transcribe_with_timestamps: "start": str(timedelta(seconds=segment["start"]))
FormatTimestamp ==
    /\ tsPc = "raw"
    /\ tsText' = FormatTimedelta(RoundMicros(tsRaw.s, tsRaw.us, tsRaw.tenth))
    /\ tsPc' = "text"
    /\ UNCHANGED <<tsRaw, tsParsed>>
    /\ UNCHANGED queryVars
    /\ UNCHANGED auVars
    /\ UNCHANGED kmVars

\* a handler parses the segment's timestamp string
ParseTimestampStep ==
    /\ tsPc = "text"
    /\ tsParsed' = ParseTimestamp(tsText)
    /\ tsPc' = "parsed"
    /\ UNCHANGED <<tsRaw, tsText>>
    /\ UNCHANGED queryVars
    /\ UNCHANGED auVars
    /\ UNCHANGED kmVars

TsNext ==
    \/ FormatTimestamp
    \/ ParseTimestampStep

TsSpec == TsInit /\ [][TsNext]_vars

\* ------------------------------------------------------------ properties
\* what a matcher's answer says, without the metadata a handler adds later
AnswerCore(info) == <<info.matched_segment, info.confidence, info.match_method>>

\* the response holds an object: from its first opening brace to its last
\* closing brace there are only members
HasBlock(r) ==
    \E i, j \in 1..Len(r) :
        /\ i < j
        /\ r[i] = LB /\ \A k \in 1..(i - 1) : r[k] # LB
        /\ r[j] = RB /\ \A k \in (j + 1)..Len(r) : r[k] # RB
        /\ \A k \in (i + 1)..(j - 1) : r[k].tok = "member"

IsIdMember(t) == t.tok = "member" /\ t.key = "best_segment_id"

\* the query is over and its last find_answer_in_transcript call got `response`
AnsweredFromResponse == pc = "done" /\ calls > 0

KeywordOnly == ~(OLLAMA_AVAILABLE /\ req.use_llm)

IsZero(v) == v.type \in {"num", "int"} /\ v.num = 0

\* C1: when the backend's response holds no parseable {...} block,
\* find_answer_in_transcript returns exactly the keyword matcher's answer for
\* the same segments and question (segment, confidence and match_method =
\* keyword_fallback), never a blend.
C1_UnparseableFallsBack ==
    (AnsweredFromResponse /\ ~HasBlock(response))
        => /\ AnswerCore(answer_info)
                = AnswerCore(FallbackKeywordMatching(transcript_data, req.question))
           /\ answer_info.match_method = "keyword_fallback"

C1_Witness ==
    /\ AnsweredFromResponse
    /\ ~HasBlock(response)
    /\ \E i \in 1..Len(response) : response[i] = LB
    /\ \E i \in 1..Len(response) : response[i] = RB
    /\ answer_info.matched_segment # NoSegment

\* C2: when the parsed response has no best_segment_id, or an integer one
\* outside [1, segment_count], no segment is selected by the adapter and the
\* answer is the keyword matcher's.
C2_BadIdFallsBack ==
    (/\ AnsweredFromResponse
     /\ HasBlock(response)
     /\ \A k \in 1..Len(response) :
           IsIdMember(response[k])
             => /\ response[k].val.type = "int"
                /\ \/ response[k].val.num < 1
                   \/ response[k].val.num > Len(transcript_data))
        => AnswerCore(answer_info)
             = AnswerCore(FallbackKeywordMatching(transcript_data, req.question))

\* C3: a transport failure of the backend does not leave the adapter:
\* generate returns the empty string and find_answer_in_transcript returns
\* the keyword matcher's answer.
C3_TransportFailureFallsBack ==
    /\ (pc \in {"responded", "done"} /\ transport = "failed") => response = <<>>
    /\ (AnsweredFromResponse /\ transport = "failed")
          => AnswerCore(answer_info)
               = AnswerCore(FallbackKeywordMatching(transcript_data, req.question))

C3_Witness ==
    /\ AnsweredFromResponse
    /\ transport = "failed"
    /\ answer_info.matched_segment # NoSegment
    /\ result.status = 200

\* C4: the backend is called at most once for a query.
C4_OneRoundTrip == calls <= 1

\* C5: a query whose backend never responds still terminates: while it waits
\* inside requests.post the handler has a step of its own (a timeout) that
\* takes it on, without any step of the backend.
C5_WaitIsBounded == pc = "waiting" => ENABLED HandlerStep

FirstOfMaximalScore(seg, segments, keywords) ==
    IF \A i \in 1..Len(segments) : Score(keywords, segments[i]) = 0
    THEN seg = NoSegment
    ELSE \E i \in 1..Len(segments) :
            /\ seg = segments[i]
            /\ \A j \in 1..Len(segments) :
                  Score(keywords, segments[j]) <= Score(keywords, segments[i])
            /\ \A j \in 1..(i - 1) :
                  Score(keywords, segments[j]) < Score(keywords, segments[i])

\* the keyword matcher decided the handler's answer
KeywordDecided ==
    /\ pc = "done"
    /\ result.status = 200
    /\ \/ KeywordOnly /\ req.op \in {"query_transcript", "query_transcript_audio"}
       \/ calls > 0 /\ answer_info.match_method = "keyword_fallback"

\* C7: the keyword matcher returns the segment of maximal score, the earliest
\* of them in transcript order, and no segment when the maximal score is 0.
C7_FirstMaximalSegment ==
    /\ KeywordDecided
          => FirstOfMaximalScore(result.answer_segment, transcript_data,
                                 Keywords(req.question))
    /\ (AnsweredFromResponse /\ answer_info.match_method = "keyword_fallback")
          => FirstOfMaximalScore(answer_info.matched_segment, transcript_data,
                                 Keywords(req.question))

C7_Witness ==
    /\ KeywordDecided
    /\ Len(transcript_data) = 2
    /\ Score(Keywords(req.question), transcript_data[1]) > 0
    /\ Score(Keywords(req.question), transcript_data[1])
         = Score(Keywords(req.question), transcript_data[2])
    /\ result.answer_segment = transcript_data[1]

\* C8: whenever the keyword matcher produces the answer, the confidence the
\* caller gets is (score of the selected segment) / (number of keywords), in [0, 1].
C8_KeywordConfidence ==
    KeywordDecided
        => LET keywords == Keywords(req.question)
               c == result.confidence
               score == IF result.answer_segment = NoSegment THEN 0
                        ELSE Score(keywords, result.answer_segment)
           IN  /\ c.type \in {"num", "int"}
               /\ 0 <= c.num /\ c.num <= c.den
               /\ IF keywords = <<>> THEN c.num = 0
                  ELSE c.num * Len(keywords) = score * c.den

\* the colon-separated fields of a timestamp string
Fields(text) == SplitOn(text, ":")

\* C9: three fields give hours*3600 + minutes*60 + seconds, two fields give
\* minutes*60 + seconds, and any other field count or a non-numeric field is an
\* error, never a number.
C9_ParseOrMalformed ==
    tsPc = "parsed"
        => LET f == Fields(tsText)
               numeric == /\ Len(f) \in {2, 3}
                          /\ \A i \in 1..(Len(f) - 1) : ParseInt(f[i]).ok
                          /\ ParseFloat(f[Len(f)]).ok
           IN  IF numeric
               THEN /\ tsParsed.ok
                    /\ tsParsed.val.us = ParseFloat(f[Len(f)]).val.us
                    /\ tsParsed.val.s =
                          IF Len(f) = 3
                          THEN ParseInt(f[1]).val * 3600 + ParseInt(f[2]).val * 60
                                 + ParseFloat(f[3]).val.s
                          ELSE ParseInt(f[1]).val * 60 + ParseFloat(f[2]).val.s
               ELSE ~tsParsed.ok

\* a and raw = [s, us, tenth] differ by at most a millisecond
WithinMillisecond(a, raw) ==
    /\ a.s - raw.s \in {-1, 0, 1}
    /\ LET d == (a.s - raw.s) * 10000000 + (a.us - raw.us) * 10 - raw.tenth
       IN  -10000 <= d /\ d <= 10000

\* C10: for every t >= 0, str(timedelta(seconds=t)) parsed back is within
\* 0.001 s of t.
C10_RoundTrip ==
    (tsPc = "parsed" /\ tsRaw # NoRaw)
        => /\ tsParsed.ok
           /\ WithinMillisecond(tsParsed.val, tsRaw)

\* a stored segment whose start or end string the handlers cannot parse
Unparseable(segment) ==
    ~ParseTimestamp(segment.start).ok \/ ~ParseTimestamp(segment.end).ok

HasUnparseable(segments) == \E i \in 1..Len(segments) : Unparseable(segments[i])

TextQuery == req.op \in {"query_transcript", "query_transcript_audio"}

\* C11: a segment whose start or end string does not parse is left out of the
\* matching: a text query on a transcript holding such a segment still
\* succeeds, and the segment it returns, if any, has parseable timestamps.
C11_UnparseableSegmentExcluded ==
    (/\ pc = "done" /\ TextQuery
     /\ ~EmptyQuestion(req.question)
     /\ HasUnparseable(transcript_data))
    => /\ result.status = 200
       /\ result.answer_segment # NoSegment => ~Unparseable(result.answer_segment)
       /\ answer_info.matched_segment # NoSegment
              => ~Unparseable(answer_info.matched_segment)

\* ------------------------------------------------ audio extraction runs
\* a < b on time values
TimeLess(a, b) == a.s < b.s \/ (a.s = b.s /\ a.us < b.us)

\* get_audio_segment(file_id, start, end) with the audio file it finds:
\* the HTTP status and the slice served
GetAudioSegment(start, end, audio) ==
    LET len == audio.len_ms
        start_ms == PadStart(ToMs(start))
        end_ms == PadEnd(ClampEnd(ToMs(end), len), len)
        segment_len == SliceLen(start_ms, end_ms, len)
    IN  IF TimeLess(start, Time(0, 0)) \/ ~TimeLess(start, end)
        THEN Clip(400, FALSE, FALSE, TRUE, -1, -1, -1)
        ELSE IF ~audio.loadable THEN Clip(400, FALSE, FALSE, TRUE, -1, -1, -1)
        ELSE IF end_ms <= start_ms THEN Clip(400, FALSE, FALSE, TRUE, -1, -1, -1)
        ELSE IF segment_len = 0 THEN Clip(400, FALSE, FALSE, TRUE, -1, -1, -1)
        ELSE Clip(200, FALSE, TRUE, FALSE, start_ms, end_ms, segment_len)

\* find_and_extract_audio_answer(transcript_data, original_audio_path, question)
\* when generate() returns `reply`
FindAndExtractAudioAnswer(segments, question, reply, audio) ==
    LET info == IF segments = <<>> THEN EmptyTranscriptAnswer
                ELSE FindAnswerFromResponse(segments, question, reply)
        ex == ExtractAudio(info, audio)
    IN  Clip(0, info.matched_segment # NoSegment, ex.has_audio, ex.error,
             ex.clip_start_ms, ex.clip_end_ms, ex.clip_len_ms)

\* "when should I take medication"
ExampleQuestion ==
    <<"w","h","e","n"," ","s","h","o","u","l","d"," ","I"," ","t","a","k","e"," ",
      "m","e","d","i","c","a","t","i","o","n">>

\* "The weather today is sunny", "Remember to take your medication at noon"
ExampleTexts ==
    << <<"T","h","e"," ","w","e","a","t","h","e","r"," ","t","o","d","a","y"," ",
         "i","s"," ","s","u","n","n","y">>,
       <<"R","e","m","e","m","b","e","r"," ","t","o"," ","t","a","k","e"," ",
         "y","o","u","r"," ","m","e","d","i","c","a","t","i","o","n"," ","a","t"," ",
         "n","o","o","n">> >>

\* start and end values of extraction requests, in seconds:
\* -2, 0, 0.25, 0.5, 4, 5, 9.5, 9.75, 10, 12
AuTimes ==
    {Time(-2, 0), Time(0, 0), Time(0, 250000), Time(0, 500000), Time(4, 0), Time(5, 0),
     Time(9, 500000), Time(9, 750000), Time(10, 0), Time(12, 0)}

\* the audio files of extraction requests: undecodable, or 0.3, 4 and 10 s long
AuAudios ==
    {NoAudio} \cup {[loadable |-> TRUE, len_ms |-> n] : n \in {300, 4000, 10000}}

\* a transcript of one segment "Take it" from start to end
OneSegment(start, end) ==
    << [id |-> 0, start |-> FormatTimedelta(start), end |-> FormatTimedelta(end),
        text |-> <<"T", "a", "k", "e", " ", "i", "t">>] >>

AuRequests ==
    [op : {"get_audio_segment"}, start : AuTimes, end : AuTimes, segments : {<<>>},
     question : {<<>>}, response : {<<>>}, audio : AuAudios]
    \cup
    {[op |-> "find_and_extract_audio_answer", start |-> Absent, end |-> Absent,
      segments |-> OneSegment(st, en), question |-> q, response |-> r, audio |-> a] :
        st \in {t \in AuTimes : ~TimeLess(t, Time(0, 0))},
        en \in {t \in AuTimes : ~TimeLess(t, Time(0, 0))},
        q \in {w_take, w_noon},
        r \in {<<>>, <<LB, Member("best_segment_id", IntVal(1)), RB>>},
        a \in AuAudios}
    \cup
    [op : {"query_then_segment"}, start : {Absent}, end : {Absent},
     segments : {TranscriptOf(ExampleTexts, 0)}
                 \cup {TranscriptOf(texts, 0) : texts \in [1..2 -> Texts]},
     question : {ExampleQuestion, w_take, w_what},
     response : {<<>>}, audio : AuAudios]

AuInit ==
    /\ QueryOff
    /\ TsOff
    /\ auPc = "start"
    /\ auReq \in AuRequests
    /\ auReq.op = "find_and_extract_audio_answer"
          => ~TimeLess(ParseTimestamp(auReq.segments[1].end).val,
                       ParseTimestamp(auReq.segments[1].start).val)
    /\ auAnswer = NoResult
    /\ auOut = NoClip
    /\ KmOff

\* a client asks get_audio_segment for a range of its own
GetAudioSegmentStep ==
    /\ auPc = "start" /\ auReq.op = "get_audio_segment"
    /\ auOut' = GetAudioSegment(auReq.start, auReq.end, auReq.audio)
    /\ auPc' = "done"
    /\ UNCHANGED <<auReq, auAnswer>>
    /\ UNCHANGED queryVars
    /\ UNCHANGED tsVars
    /\ UNCHANGED kmVars

\* a handler calls find_and_extract_audio_answer
FindAndExtractStep ==
    /\ auPc = "start" /\ auReq.op = "find_and_extract_audio_answer"
    /\ auOut' = FindAndExtractAudioAnswer(auReq.segments, auReq.question,
                                          auReq.response, auReq.audio)
    /\ auPc' = "done"
    /\ UNCHANGED <<auReq, auAnswer>>
    /\ UNCHANGED queryVars
    /\ UNCHANGED tsVars
    /\ UNCHANGED kmVars

\* a client asks query_transcript with use_llm=false
KeywordAnswerStep ==
    /\ auPc = "start" /\ auReq.op = "query_then_segment"
    /\ auAnswer' = KeywordQuery(auReq.segments, auReq.question, 500)
    /\ auPc' = "answered"
    /\ UNCHANGED <<auReq, auOut>>
    /\ UNCHANGED queryVars
    /\ UNCHANGED tsVars
    /\ UNCHANGED kmVars

\* the client asks get_audio_segment for the answer's start_time and end_time
SegmentOfAnswerStep ==
    /\ auPc = "answered"
    /\ auAnswer.status = 200 /\ auAnswer.answer_segment # NoSegment
    /\ auOut' = GetAudioSegment(auAnswer.start_time, auAnswer.end_time, auReq.audio)
    /\ auPc' = "done"
    /\ UNCHANGED <<auReq, auAnswer>>
    /\ UNCHANGED queryVars
    /\ UNCHANGED tsVars
    /\ UNCHANGED kmVars

AuNext ==
    \/ GetAudioSegmentStep
    \/ FindAndExtractStep
    \/ KeywordAnswerStep
    \/ SegmentOfAnswerStep

AudioSpec == AuInit /\ [][AuNext]_vars

\* the range an extraction run is about, in seconds
AuStart ==
    IF auReq.op = "get_audio_segment" THEN auReq.start
    ELSE IF auReq.op = "find_and_extract_audio_answer"
    THEN ParseTimestamp(auReq.segments[1].start).val
    ELSE auAnswer.start_time

AuEnd ==
    IF auReq.op = "get_audio_segment" THEN auReq.end
    ELSE IF auReq.op = "find_and_extract_audio_answer"
    THEN ParseTimestamp(auReq.segments[1].end).val
    ELSE auAnswer.end_time

\* an extraction was asked for and has returned
Extracted ==
    /\ auPc = "done"
    /\ auReq.op = "find_and_extract_audio_answer" => auOut.matched

InvalidRange == TimeLess(AuStart, Time(0, 0)) \/ ~TimeLess(AuStart, AuEnd)

\* C12: every extraction, get_audio_segment's and the one inside
\* find_and_extract_audio_answer, answers a range with start < 0 or
\* end <= start with an error and without a clip.
C12_InvalidRangeRejected ==
    (Extracted /\ InvalidRange) => (auOut.error /\ ~auOut.has_audio)

\* the range in milliseconds, its end cut to the audio's length
AuStartMs == AuStart.s * 1000 + AuStart.us \div 1000
AuEndMs == AuEnd.s * 1000 + AuEnd.us \div 1000
AuClampedEndMs == IF AuEndMs > auReq.audio.len_ms THEN auReq.audio.len_ms ELSE AuEndMs

\* C13: padding is all or nothing on each side.  For an accepted range on a
\* decodable audio of length D, the clip starts at start - padding when that
\* is >= 0 and at start otherwise, and ends at end + padding when that is <= D
\* and at end otherwise (end cut to D first); a range that is not empty before
\* padding yields a clip, never an error.
C13_PaddingAllOrNothing ==
    (Extracted /\ ~InvalidRange /\ auReq.audio.loadable)
    => /\ AuClampedEndMs > AuStartMs => (auOut.has_audio /\ ~auOut.error)
       /\ auOut.has_audio =>
            /\ auOut.clip_start_ms =
                  (IF AuStartMs - 500 >= 0 THEN AuStartMs - 500 ELSE AuStartMs)
            /\ auOut.clip_end_ms =
                  (IF AuClampedEndMs + 500 <= auReq.audio.len_ms
                   THEN AuClampedEndMs + 500 ELSE AuClampedEndMs)

\* a clip padded at its end only: the start is less than the padding away
\* from the start of the audio
C13_Witness ==
    /\ Extracted /\ ~InvalidRange /\ auOut.has_audio
    /\ AuStartMs > 0 /\ AuStartMs < 500
    /\ auOut.clip_start_ms = AuStartMs
    /\ auOut.clip_end_ms = AuEndMs + 500

\* C14: with the 0.5 s padding, a range starting at 0 yields a clip starting
\* at exactly 0, and a range ending at the audio's length D yields a clip
\* ending at exactly D.
C14_PaddingBoundary ==
    (Extracted /\ auOut.has_audio)
    => /\ AuStartMs = 0 => auOut.clip_start_ms = 0
       /\ AuEndMs = auReq.audio.len_ms => auOut.clip_end_ms = auReq.audio.len_ms

\* the whole audio is asked for and served
C14_Witness ==
    /\ Extracted /\ auOut.has_audio
    /\ AuStartMs = 0 /\ AuEndMs = auReq.audio.len_ms
    /\ auOut.clip_start_ms = 0 /\ auOut.clip_end_ms = auReq.audio.len_ms
    /\ auOut.clip_len_ms = auReq.audio.len_ms

\* C15: no extraction returns a clip of zero length: when the slice bounds
\* after clamping and padding give an empty slice, the extraction fails and
\* no audio bytes are returned.
C15_NoEmptyClip ==
    (Extracted /\ auOut.has_audio) => auOut.clip_len_ms > 0

\* the transcript of the end-to-end scenario
ExampleTranscript ==
    << [id |-> 0, start |-> <<"0", ":", "0", "0", ":", "0", "0">>,
        end |-> <<"0", ":", "0", "0", ":", "0", "5">>, text |-> ExampleTexts[1]],
       [id |-> 1, start |-> <<"0", ":", "0", "0", ":", "0", "5">>,
        end |-> <<"0", ":", "0", "0", ":", "1", "0">>, text |-> ExampleTexts[2]] >>

ExampleRun ==
    /\ auReq.op = "query_then_segment"
    /\ auReq.segments = ExampleTranscript
    /\ auReq.question = ExampleQuestion
    /\ auReq.audio = [loadable |-> TRUE, len_ms |-> 10000]

\* C19: for the example transcript and the question "when should I take
\* medication" in keyword-only mode, the second segment is matched with
\* start_seconds 5.0 and end_seconds 10.0, and the extraction from a 10 s
\* audio with 0.5 s padding serves the range 4.5 s to 10.0 s.
C19_EndToEnd ==
    ExampleRun
    => /\ auPc \in {"answered", "done"} =>
            /\ auAnswer.status = 200
            /\ auAnswer.answer_segment = ExampleTranscript[2]
            /\ auAnswer.start_time = Time(5, 0)
            /\ auAnswer.end_time = Time(10, 0)
       /\ auPc = "done" =>
            /\ auOut.status = 200 /\ auOut.has_audio
            /\ auOut.clip_start_ms = 4500
            /\ auOut.clip_end_ms = 10000

C19_Witness ==
    /\ ExampleRun /\ auPc = "done"
    /\ auAnswer.answer_segment = ExampleTranscript[2]
    /\ auOut.clip_start_ms = 4500 /\ auOut.clip_end_ms = 10000
    /\ auOut.clip_len_ms = 5500

\* the request asks for the answer together with its audio
WithAudio ==
    \/ req.op = "audio_question_answer" /\ req.include_audio
    \/ req.op = "stream_answer_audio"

\* C16: when a segment was matched and the audio extraction fails, the
\* answer-with-audio request still succeeds: the caller gets the matched
\* segment, its confidence and its metadata, without audio.
C16_ExtractionFailureKeepsAnswer ==
    (/\ pc = "done" /\ WithAudio
     /\ answer_info.matched_segment # NoSegment
     /\ ~result.has_audio)
    => /\ result.status = 200
       /\ result.answer_segment = answer_info.matched_segment
       /\ result.confidence = answer_info.confidence
       /\ result.match_method = answer_info.match_method

\* C17: every result a query operation returns, the no-answer result
\* included, carries metadata with match_method.
C17_MetadataAlwaysPresent ==
    (pc = "done" /\ req.op # "stream_answer_audio" /\ result.status = 200)
    => (result.has_metadata /\ result.match_method # "none")

\* C18: an empty or whitespace-only question is rejected with a validation
\* error: it reaches no matcher, neither the backend nor the keyword scan,
\* and is never answered with "No relevant answer found".
C18_BlankQuestionRejected ==
    (pc # "start" /\ EmptyQuestion(req.question))
    => /\ calls = 0
       /\ pc = "done"
       /\ result.status = 400
       /\ result.text # NoAnswerText

\* ------------------------------------------------- keyword matcher runs
\* faulty variant of InitialBest: the scan goes on from the last call's best
CarriedBest(last) == last

\* best_segment = None; best_score = 0: the locals of a call start afresh,
\* whatever the call before left in them
InitialBest(last) == NoBest

\* the transcripts and questions of keyword matcher calls:
\* ["Take it"] and ["Take it", "take at noon"];
\* "take", "take take" and "take what what noon"
KmTranscripts ==
    {TranscriptOf(texts, 0) :
        texts \in { <<<<"T", "a", "k", "e", " ", "i", "t">>>>,
                    << <<"T", "a", "k", "e", " ", "i", "t">>,
                       <<"t", "a", "k", "e", " ", "a", "t", " ", "n", "o", "o", "n">> >> }}

KmQuestions ==
    {w_take,
     w_take \o <<" ">> \o w_take,
     w_take \o <<" ">> \o w_what \o <<" ">> \o w_what \o <<" ">> \o w_noon}

KmInit ==
    /\ QueryOff
    /\ TsOff
    /\ AuOff
    /\ kmCalls = 0
    /\ kmLast = NoBest
    /\ kmLog = {}

\* the scoring loop of a call on (segments, question), from fresh locals
MatcherScan(segments, question) ==
    ScanSegments(segments, Keywords(question), 1, InitialBest(kmLast))

\* the log entry of a call that extracted the question's keywords and
\* returned `segment` after scoring `best`
LogEntry(matcher, segments, question, segment, best) ==
    [n |-> kmCalls + 1, matcher |-> matcher, segments |-> segments,
     question |-> question, keywords |-> Keywords(question),
     segment |-> segment, score |-> best.score]

\* OllamaClient._fallback_keyword_matching(segments, question):
\* "matched_segment": best_segment
FallbackCall ==
    /\ kmCalls < MaxCalls
    /\ \E segments \in KmTranscripts, question \in KmQuestions :
          LET best == MatcherScan(segments, question)
          IN  /\ kmLast' = best
              /\ kmLog' = kmLog \cup {LogEntry("_fallback_keyword_matching", segments,
                                               question, best.segment, best)}
    /\ kmCalls' = kmCalls + 1
    /\ UNCHANGED queryVars
    /\ UNCHANGED tsVars
    /\ UNCHANGED auVars

\* WhisperTranscriber.get_segment_by_question(transcript_data, question):
\* return best_segment if best_score > 0 else None
GetSegmentCall ==
    /\ kmCalls < MaxCalls
    /\ \E segments \in KmTranscripts, question \in KmQuestions :
          LET best == MatcherScan(segments, question)
          IN  /\ kmLast' = best
              /\ kmLog' = kmLog \cup {LogEntry("get_segment_by_question", segments,
                                               question,
                                               IF best.score > 0 THEN best.segment
                                               ELSE NoSegment,
                                               best)}
    /\ kmCalls' = kmCalls + 1
    /\ UNCHANGED queryVars
    /\ UNCHANGED tsVars
    /\ UNCHANGED auVars

KmNext ==
    \/ FallbackCall
    \/ GetSegmentCall

MatchSpec == KmInit /\ [][KmNext]_vars

SameCall(a, b) ==
    /\ a.matcher = b.matcher
    /\ a.segments = b.segments
    /\ a.question = b.question

\* C20: the keyword matcher is deterministic: two calls with the same
\* transcript and question, in any order and with any other calls between
\* them, return the same segment and the same score.
C20_KeywordDeterminism ==
    \A a, b \in kmLog :
        SameCall(a, b) => (a.segment = b.segment /\ a.score = b.score)

\* the same call made twice, with a call between them that matched another
\* segment with another score
C20_Witness ==
    \E a, b, c \in kmLog :
        /\ a.n = 1 /\ c.n = 2 /\ b.n = 3
        /\ SameCall(a, b) /\ ~SameCall(a, c)
        /\ a.segment = b.segment /\ a.score = b.score
        /\ c.segment # NoSegment /\ c.segment # a.segment /\ c.score # a.score

\* C21: no query operation changes the transcript: whatever step a handler
\* or the backend takes, the segment sequence and every segment's id, start,
\* end and text stay as they were, and no metadata is written into a segment.
C21_TranscriptUnchanged == [][transcript_data' = transcript_data]_vars

\* a handler returned a segment of the transcript with its timestamp
\* metadata, and the transcript still holds that segment as it was stored
C21_Witness ==
    /\ pc = "done" /\ result.status = 200
    /\ result.timestamp.present
    /\ \E i \in 1..Len(transcript_data) :
          /\ transcript_data[i] = result.answer_segment
          /\ DOMAIN transcript_data[i] = {"id", "start", "end", "text"}

\* a number in [0,1]
InUnitInterval(v) ==
    /\ v.type \in {"num", "int"}
    /\ 0 <= v.num /\ v.num <= v.den

\* C22: the confidence of every result a matcher returns is a number in
\* [0,1], on the keyword path and on the semantic path whatever confidence
\* the backend's block carries.
C22_ConfidenceInUnitInterval ==
    answer_info # NoAnswerInfo => InUnitInterval(answer_info.confidence)

\* C23: a transcript with zero segments is accepted: the query ends with the
\* no-answer result (no segment, confidence 0), not with an error, in
\* semantic and in keyword-only mode, and the backend is not called for it.
C23_EmptyTranscriptNoAnswer ==
    (pc = "done" /\ transcript_data = <<>> /\ req.op # "stream_answer_audio")
    => /\ calls = 0
       /\ result.status = 200
       /\ result.answer_segment = NoSegment
       /\ IsZero(result.confidence)

\* the fixed stop-word set
StopWords ==
    { <<"w","h","a","t">>, <<"w","h","e","n">>, <<"w","h","e","r","e">>,
      <<"w","h","o">>, <<"h","o","w">>, <<"w","h","y">>, <<"i","s">>,
      <<"a","r","e">>, <<"d","i","d">>, <<"d","o">>, <<"d","o","e","s">> }

\* the tokens toks[i..] without the stop words that have a space on both
\* sides; lead / trail: the text starts / ends with a space
RECURSIVE WithoutStopWords(_, _, _, _)
WithoutStopWords(toks, i, lead, trail) ==
    IF i > Len(toks) THEN <<>>
    ELSE IF /\ toks[i] \in StopWords
            /\ (i > 1 \/ lead)
            /\ (i < Len(toks) \/ trail)
         THEN WithoutStopWords(toks, i + 1, lead, trail)
         ELSE <<toks[i]>> \o WithoutStopWords(toks, i + 1, lead, trail)

\* the keyword list the stop-word rule and the length rule define
ExpectedKeywords(question) ==
    LET q == Lower(question)
        rest == WithoutStopWords(SplitWs(q), 1,
                                 q # <<>> /\ q[1] = " ",
                                 q # <<>> /\ q[Len(q)] = " ")
    IN  SelectSeq(rest, LAMBDA t : Len(t) > 3)

\* C24: every stop word standing in the lower-cased question as a token
\* with a space on both sides is removed before keyword extraction, also
\* when the same stop word stands several times in a row; the keyword list
\* is exactly the remaining whitespace-separated tokens of length > 3.
C24_StopWordsRemoved ==
    \A e \in kmLog : e.keywords = ExpectedKeywords(e.question)

\* the keywords of the list that occur in the lower-cased text, as a set
DistinctHits(keywords, text) ==
    {keywords[k] : k \in {j \in 1..Len(keywords) : Contains(keywords[j], Lower(text))}}

\* C25: a segment's keyword score is the number of distinct keywords that
\* occur in its lower-cased text: a keyword counts once however often it
\* occurs in the segment or in the question, so the score never exceeds the
\* number of distinct keywords.
C25_ScoreCountsDistinctKeywords ==
    \A e \in kmLog :
        e.segment # NoSegment
        => /\ e.score = Cardinality(DistinctHits(e.keywords, e.segment.text))
           /\ e.score <= Cardinality({e.keywords[k] : k \in 1..Len(e.keywords)})

\* the best_segment_id of the response's object
ResponseId == DictGet(response, "best_segment_id", NullVal)

\* the decimal digits of the id denote n
Denotes(digits, n) ==
    /\ digits # <<>>
    /\ \A i \in 1..Len(digits) : digits[i] \in {"0","1","2","3","4","5","6","7","8","9"}
    /\ \E k \in 0..99 : k = n /\ DecStr(k) = digits

\* the id is a str of decimal digits only
DigitOnly(v) == v.type = "str" /\ \E n \in 0..99 : Denotes(v.str, n)

\* C26: a best_segment_id that is a digit-only string is answered exactly as
\* the integer it denotes (same segment, same confidence, same method, same
\* fallback decision); any other string selects no segment: the keyword
\* matcher's answer is returned and no exception reaches the caller.
C26_DigitStringId ==
    (AnsweredFromResponse /\ HasBlock(response) /\ ResponseId.type = "str")
    => IF DigitOnly(ResponseId)
       THEN \E n \in 0..99 :
               /\ Denotes(ResponseId.str, n)
               /\ AnswerCore(answer_info)
                    = AnswerCore(FindAnswerFromResponse(
                          transcript_data, req.question,
                          <<LB, Member("best_segment_id", IntVal(n)), RB>>))
       ELSE /\ AnswerCore(answer_info)
                 = AnswerCore(FallbackKeywordMatching(transcript_data, req.question))
            /\ answer_info.match_method = "keyword_fallback"

\* the id "2" selected the transcript's second segment
C26_Witness ==
    /\ AnsweredFromResponse /\ HasBlock(response)
    /\ ResponseId = StrVal(<<"2">>)
    /\ Len(transcript_data) >= 2
    /\ answer_info.matched_segment = transcript_data[2]
    /\ answer_info.match_method = "semantic"

\* C27: for an accepted range on a decodable audio of length D, an end
\* beyond D is no error (the end is cut to D and a range starting inside the
\* audio is served), and the final slice bounds of every extraction satisfy
\* 0 <= clip_start <= clip_end <= D.
C27_ClampedBounds ==
    (Extracted /\ ~InvalidRange /\ auReq.audio.loadable)
    => /\ (AuEndMs > auReq.audio.len_ms /\ AuStartMs < auReq.audio.len_ms)
              => (auOut.has_audio /\ ~auOut.error)
       /\ auOut.has_audio
              => /\ 0 <= auOut.clip_start_ms
                 /\ auOut.clip_start_ms <= auOut.clip_end_ms
                 /\ auOut.clip_end_ms <= auReq.audio.len_ms

\* C28: match_method names the matcher that produced the result and is
\* semantic or keyword_fallback: keyword_fallback in keyword-only mode and
\* whenever the keyword matcher decided, semantic only when the backend's
\* choice from a parseable object was used.
C28_MatchMethodNamesMatcher ==
    (pc = "done" /\ result.status = 200 /\ req.op # "stream_answer_audio")
    => /\ result.match_method \in {"semantic", "keyword_fallback"}
       /\ KeywordOnly => result.match_method = "keyword_fallback"
       /\ result.match_method = "semantic"
             => /\ calls > 0
                /\ HasBlock(response)
                /\ result.answer_segment # NoSegment

\* the segments that the last request labelled "Segment k"
Labelled(k) == {prompt[j].segment : j \in {i \in 1..Len(prompt) : prompt[i].label = k}}

\* the response's object names segment k of the request
NamesSegment(k) ==
    /\ AnsweredFromResponse /\ HasBlock(response)
    /\ ResponseId = IntVal(k)
    /\ 1 <= k /\ k <= Len(transcript_data)

\* C29: when the backend's best_segment_id is k in 1..segment_count, the
\* returned segment is the one the request labelled "Segment k": the request
\* numbers the segments from 1 in transcript order, and the result is the
\* transcript's k-th segment (zero-based index k - 1), matched semantically.
C29_LabelledSegmentReturned ==
    \A k \in 1..MaxSegs :
        NamesSegment(k)
        => /\ Len(prompt) = Len(transcript_data)
           /\ \A j \in 1..Len(prompt) :
                 prompt[j].label = j /\ prompt[j].segment = transcript_data[j]
           /\ Labelled(k) = {answer_info.matched_segment}
           /\ answer_info.matched_segment = transcript_data[(k - 1) + 1]
           /\ answer_info.match_method = "semantic"

\* the backend named segment 2 of a two-segment request and got it back
C29_Witness ==
    /\ NamesSegment(2)
    /\ Labelled(2) = {answer_info.matched_segment}
    /\ answer_info.matched_segment = transcript_data[2]
    /\ answer_info.matched_segment # transcript_data[1]

====
